---- MODULE Spec2Model ----
(***************************************************************************)
(* Model of add_noise_and_swap_records.py: the field mutators, the row     *)
(* mutation engine, the encoding swap engine and the file pipeline.        *)
(*                                                                         *)
(* Strings are sequences of one-character strings.  Probabilities are      *)
(* integer percentages (0.03 * level is 3 * level); a draw of random() is  *)
(* the integer floor(100 * u), so "u < p" is "U < P" exactly.              *)
(***************************************************************************)
EXTENDS Integers, Sequences, FiniteSets, TLC

VARIABLES
    pc,          \* position of the program
    seed,        \* the generator's stream (<<>>: an arbitrary generator)
    pos,         \* number of draws consumed from the generator
    level,       \* --noise-level
    swap_prob,   \* --swap-prob, in percent
    indir,       \* --input-dir: [exists, files: file name -> content]
    outdir,      \* --output-dir: [exists, files: file name -> content]
    files,       \* main: list(iter_encoded_files(input_dir))
    fi,          \* main: index of the file being processed
    opened,      \* names of the files process_encoded_file has opened, in order
    fieldnames,  \* process_encoded_file: fieldnames
    rows,        \* process_encoded_file: rows
    ri,          \* index of the row being mutated
    noisy_rows,  \* process_encoded_file: noisy_rows
    row,         \* mutate_encoded_row: row
    mutated,     \* mutate_encoded_row: mutated
    ci,          \* mutate_encoded_row: index of the column in mutate_fields
    fn,          \* the field mutator running: mutate_name or mutate_generic
    value,       \* mutate_name / mutate_generic: value
    gates,       \* gates drawn by the mutator call in progress: <<gate name, fired>>
    enc_col,     \* apply_encoding_swaps: enc_col
    indices,     \* apply_encoding_swaps: indices
    k,           \* apply_encoding_swaps: k
    pre_rows,    \* the rows as they were when apply_encoding_swaps was entered
    attempts,    \* the pairs <<i, j>> of row indices whose swap gate was drawn
    run,         \* 1 for the first run of the program, 2 for the second
    out1,        \* what the first run wrote, file name -> content
    written,     \* what this run wrote, file name -> content
    started,     \* per file opened: the generator's state then, the content, the output
    op,          \* the string function applied (specification SpecStr)
    arg,         \* its argument
    ret          \* its result

rngVars  == <<seed, pos>>
cfgVars  == <<level, swap_prob>>
dirVars  == <<indir, outdir, files, fi, opened, written, started>>
fileVars == <<fieldnames, rows, ri, noisy_rows>>
rowVars  == <<row, mutated, ci>>
mutVars  == <<fn, value, gates>>
swapVars == <<enc_col, indices, k, pre_rows, attempts>>
runVars  == <<run, out1>>
strVars  == <<op, arg, ret>>
vars == <<pc, rngVars, cfgVars, dirVars, fileVars, rowVars, mutVars, swapVars,
          runVars, strVars>>

-----------------------------------------------------------------------------
(* Bounds of the model *)

\* the longest string the string functions are applied to in SpecStr
MaxLen == 3
\* how many of the 26 letters introduce_typo may insert
NumLetters == 2
\* the most rows of a dataset handed to apply_encoding_swaps in SpecSwap
MaxRows == 4
\* the period of the seeded generator's stream
SeedLen == 5

-----------------------------------------------------------------------------
(* Directories and files: a file's content is what csv.DictReader makes of it *)

NoDir == [exists |-> FALSE, files |-> <<>>]
EmptyDir == [exists |-> TRUE, files |-> <<>>]
NoOutput == [header |-> <<>>, rows |-> <<>>]

-----------------------------------------------------------------------------
(* Characters and strings *)

Min(a, b) == IF a < b THEN a ELSE b
Max(a, b) == IF a > b THEN a ELSE b

LowerAlphabet ==
    << "a","b","c","d","e","f","g","h","i","j","k","l","m",
       "n","o","p","q","r","s","t","u","v","w","x","y","z" >>
UpperAlphabet ==
    << "A","B","C","D","E","F","G","H","I","J","K","L","M",
       "N","O","P","Q","R","S","T","U","V","W","X","Y","Z" >>
Digits == << "0","1","2","3","4","5","6","7","8","9" >>

RECURSIVE IndexFrom(_, _, _)
IndexFrom(c, seq, i) ==
    IF i > Len(seq) THEN 0
    ELSE IF seq[i] = c THEN i ELSE IndexFrom(c, seq, i + 1)
\* 1-based index of c in seq, 0 when absent
IndexOf(c, seq) == IndexFrom(c, seq, 1)

IsLower(c) == IndexOf(c, LowerAlphabet) > 0
IsUpper(c) == IndexOf(c, UpperAlphabet) > 0
IsCased(c) == IsLower(c) \/ IsUpper(c)
IsDigit(c) == IndexOf(c, Digits) > 0
DigitVal(c) == IndexOf(c, Digits) - 1
\* \w of the re module
IsWord(c) == IsCased(c) \/ IsDigit(c) \/ c = "_"

LowerChar(c) == IF IsUpper(c) THEN LowerAlphabet[IndexOf(c, UpperAlphabet)] ELSE c
UpperChar(c) == IF IsLower(c) THEN UpperAlphabet[IndexOf(c, LowerAlphabet)] ELSE c

\* value[a:b] of Python, 0-based, b exclusive
Slice(s, a, b) == SubSeq(s, a + 1, Min(b, Len(s)))

StrLower(s) == [i \in 1..Len(s) |-> LowerChar(s[i])]
StrUpper(s) == [i \in 1..Len(s) |-> UpperChar(s[i])]
\* str.title: a cased character is upper-cased after an uncased one (or at the
\* start) and lower-cased after a cased one
StrTitle(s) ==
    [i \in 1..Len(s) |->
        IF i = 1 \/ ~IsCased(s[i - 1]) THEN UpperChar(s[i]) ELSE LowerChar(s[i])]
StrCapitalize(s) ==
    [i \in 1..Len(s) |-> IF i = 1 THEN UpperChar(s[i]) ELSE LowerChar(s[i])]

RECURSIVE Spaces(_)
Spaces(n) == IF n = 0 THEN <<>> ELSE <<" ">> \o Spaces(n - 1)

\* s \in t as Python's substring test
Contains(t, s) ==
    \E i \in 0..(Len(t) - Len(s)) : SubSeq(t, i + 1, i + Len(s)) = s

\* the bag of characters of a string
CharCount(s, c) == Cardinality({i \in 1..Len(s) : s[i] = c})
SameChars(s, t) ==
    /\ Len(s) = Len(t)
    /\ \A i \in 1..Len(s) : CharCount(s, s[i]) = CharCount(t, s[i])

-----------------------------------------------------------------------------
(* Field mutators, as functions of the value and of what the generator drew *)

operations == << "delete", "insert", "swap", "replace" >>
letters == SubSeq(LowerAlphabet, 1, NumLetters)

\* introduce_typo with idx = rng.randrange(len(value)), op = rng.choice(operations)
\* and letter = rng.choice(letters) (drawn by insert and replace only)
IntroduceTypo(v, idx, o, letter) ==
    IF v = <<>> THEN v
    ELSE IF o = "delete" THEN Slice(v, 0, idx) \o Slice(v, idx + 1, Len(v))
    ELSE IF o = "insert" THEN Slice(v, 0, idx) \o <<letter>> \o Slice(v, idx, Len(v))
    ELSE IF o = "swap" /\ Len(v) > 1 THEN
        LET j == Min(idx + 1, Len(v) - 1)
        IN  [i \in 1..Len(v) |->
                IF i = idx + 1 THEN v[j + 1]
                ELSE IF i = j + 1 THEN v[idx + 1] ELSE v[i]]
    ELSE Slice(v, 0, idx) \o <<letter>> \o Slice(v, idx + 1, Len(v))

\* the number of draws introduce_typo consumes
TypoDraws(v, o) ==
    IF v = <<>> THEN 0
    ELSE IF o = "delete" \/ (o = "swap" /\ Len(v) > 1) THEN 2 ELSE 3

case_functions == << "lower", "upper", "title", "capitalize" >>

\* random_case with f = rng.choice([str.lower, str.upper, str.title, str.capitalize])
RandomCase(v, f) ==
    IF v = <<>> THEN v
    ELSE IF f = "lower" THEN StrLower(v)
    ELSE IF f = "upper" THEN StrUpper(v)
    ELSE IF f = "title" THEN StrTitle(v)
    ELSE StrCapitalize(v)

\* add_whitespace with a, b = rng.randint(0, 2), rng.randint(0, 2)
AddWhitespace(v, a, b) ==
    IF v = <<>> THEN v ELSE Spaces(a) \o v \o Spaces(b)

suffixes ==
    << <<" ","J","r">>, <<" ","S","r">>, <<" ","I","I">>, <<" ","I","I","I">>,
       <<"-","S","m","i","t","h">> >>

\* add_suffix with s = rng.choice(suffixes)
AddSuffix(v, s) == IF v = <<>> THEN v ELSE v \o s

\* swap_two_characters assigning chars[i] = chars[j] and then chars[j] = chars[i]
\* one after the other, which loses chars[i]
SwapTwoCharacters_Overwrite(v, i, j) ==
    IF v = <<>> \/ Len(v) < 2 THEN v
    ELSE IF i = j THEN v
    ELSE [n \in 1..Len(v) |-> IF n = i + 1 THEN v[j + 1] ELSE v[n]]

\* swap_two_characters with i, j = rng.sample(range(len(value)), 2)
SwapTwoCharacters(v, i, j) ==
    IF v = <<>> \/ Len(v) < 2 THEN v
    ELSE IF i = j THEN v
    ELSE [n \in 1..Len(v) |->
            IF n = i + 1 THEN v[j + 1] ELSE IF n = j + 1 THEN v[i + 1] ELSE v[n]]

-----------------------------------------------------------------------------
(* The generator.  random.Random(seed) is a deterministic stream of draws:  *)
(* seed is that stream (periodic, of the raw values RawValues) and pos      *)
(* counts the draws consumed.  With seed = <<>> the generator is arbitrary:  *)
(* every draw may return any value of its range.  A draw is named by its    *)
(* offset from pos within the step that makes it.                           *)

\* floor(100 * u) for the values u of rng.random() an arbitrary generator returns
GateDraws == {0, 3, 50, 99}

\* the raw values of a seeded generator's stream
RawValues == {0, 1}

Free == seed = <<>>
RawAt(off) == seed[((pos + off) % Len(seed)) + 1]

\* rng.random(), as floor(100 * u)
Random(off) == IF Free THEN GateDraws ELSE {(RawAt(off) * 100) \div Cardinality(RawValues)}
\* rng.randrange(n)
Randrange(off, n) == IF Free THEN 0..(n - 1) ELSE {RawAt(off) % n}
\* rng.randint(a, b)
Randint(off, a, b) == {a + r : r \in Randrange(off, b - a + 1)}
\* rng.choice(seq)
Choice(off, seq) == {seq[i + 1] : i \in Randrange(off, Len(seq))}
\* rng.sample(range(n), 2): two distinct positions
Sample2(off, n) ==
    IF Free THEN {<<i, j>> : i \in 0..(n - 1), j \in 0..(n - 1)} \ {<<i, i>> : i \in 0..(n - 1)}
    ELSE {<<RawAt(off) % n, ((RawAt(off) % n) + 1) % n>>}

\* the sequences that hold each of 0..n-1 once
Permutations0(n) ==
    {p \in [1..n -> 0..(n - 1)] : \A i, j \in 1..n : i # j => p[i] # p[j]}
\* rng.shuffle(list(range(n)))
Shuffle(off, n) ==
    IF Free THEN Permutations0(n)
    ELSE {[i \in 1..n |-> (i - 1 + RawAt(off)) % n]}

-----------------------------------------------------------------------------
(* build_noise_config, in percent *)

clamp(prob) == Max(0, Min(prob, 95))

build_noise_config(l) ==
    [ missing_prob         |-> clamp(3 * l),
      typo_prob            |-> clamp(15 * l),
      case_prob            |-> clamp(10 * l),
      swap_name_prob       |-> clamp(4 * l),
      char_swap_prob       |-> clamp(6 * l),
      whitespace_prob      |-> clamp(12 * l),
      suffix_prob          |-> clamp(5 * l),
      uid_noise_prob       |-> clamp(6 * l),
      date_shift_prob      |-> clamp(30 * l),
      date_format_prob     |-> clamp(45 * l),
      date_text_token_prob |-> clamp(2 * l),
      max_date_shift_days  |-> Max(1, 12 * l) ]

config == build_noise_config(level)

-----------------------------------------------------------------------------
(* Dates *)

None == [y |-> 0, m |-> 0, d |-> 0]

RECURSIVE SplitFrom(_, _, _, _)
SplitFrom(s, sep, i, cur) ==
    IF i > Len(s) THEN <<cur>>
    ELSE IF s[i] = sep THEN <<cur>> \o SplitFrom(s, sep, i + 1, <<>>)
    ELSE SplitFrom(s, sep, i + 1, Append(cur, s[i]))
\* str.split(sep)
Split(s, sep) == SplitFrom(s, sep, 1, <<>>)

\* what strptime's %m, %d and %Y accept and the number each stands for (0: no match)
\* %m is 1[0-2]|0[1-9]|[1-9]
MonthToken(t) ==
    IF Len(t) = 1 /\ IsDigit(t[1]) /\ t[1] # "0" THEN DigitVal(t[1])
    ELSE IF Len(t) = 2 /\ t[1] = "0" /\ IsDigit(t[2]) /\ t[2] # "0" THEN DigitVal(t[2])
    ELSE IF Len(t) = 2 /\ t[1] = "1" /\ t[2] \in {"0", "1", "2"} THEN 10 + DigitVal(t[2])
    ELSE 0
\* %d is 3[01]|[12]\d|0[1-9]|[1-9]| [1-9]
DayToken(t) ==
    IF Len(t) = 1 /\ IsDigit(t[1]) /\ t[1] # "0" THEN DigitVal(t[1])
    ELSE IF Len(t) = 2 /\ t[1] = "3" /\ t[2] \in {"0", "1"} THEN 30 + DigitVal(t[2])
    ELSE IF Len(t) = 2 /\ t[1] \in {"1", "2"} /\ IsDigit(t[2])
        THEN 10 * DigitVal(t[1]) + DigitVal(t[2])
    ELSE IF Len(t) = 2 /\ t[1] \in {"0", " "} /\ IsDigit(t[2]) /\ t[2] # "0"
        THEN DigitVal(t[2])
    ELSE 0
\* %Y is \d\d\d\d
YearToken(t) ==
    IF Len(t) = 4 /\ \A i \in 1..4 : IsDigit(t[i])
    THEN 1000 * DigitVal(t[1]) + 100 * DigitVal(t[2]) + 10 * DigitVal(t[3]) + DigitVal(t[4])
    ELSE 0

IsLeap(y) == (y % 4 = 0 /\ y % 100 # 0) \/ y % 400 = 0
DaysInMonth(y, m) ==
    IF m = 2 THEN (IF IsLeap(y) THEN 29 ELSE 28)
    ELSE IF m \in {4, 6, 9, 11} THEN 30 ELSE 31

\* datetime.strptime(value, fmt) for the three formats parse_birthday tries;
\* None stands for the ValueError
Strptime(v, fmt) ==
    LET sep  == IF fmt = "%Y-%m-%d" THEN "-" ELSE "/"
        toks == Split(v, sep)
        mi   == IF fmt = "%m/%d/%Y" THEN 1 ELSE 2
        di   == IF fmt = "%m/%d/%Y" THEN 2 ELSE IF fmt = "%d/%m/%Y" THEN 1 ELSE 3
        yi   == IF fmt = "%Y-%m-%d" THEN 1 ELSE 3
    IN  IF Len(toks) # 3 THEN None
        ELSE LET y == YearToken(toks[yi])
                 m == MonthToken(toks[mi])
                 d == DayToken(toks[di])
             IN  IF y = 0 \/ m = 0 \/ d = 0 THEN None
                 ELSE IF d > DaysInMonth(y, m) THEN None
                 ELSE [y |-> y, m |-> m, d |-> d]

parse_formats == << "%m/%d/%Y", "%d/%m/%Y", "%Y-%m-%d" >>

RECURSIVE ParseFrom(_, _)
ParseFrom(v, i) ==
    IF i > Len(parse_formats) THEN None
    ELSE IF Strptime(v, parse_formats[i]) # None THEN Strptime(v, parse_formats[i])
    ELSE ParseFrom(v, i + 1)
parse_birthday(v) == ParseFrom(v, 1)

NextDay(dt) ==
    IF dt.d < DaysInMonth(dt.y, dt.m) THEN [dt EXCEPT !.d = dt.d + 1]
    ELSE IF dt.m < 12 THEN [y |-> dt.y, m |-> dt.m + 1, d |-> 1]
    ELSE [y |-> dt.y + 1, m |-> 1, d |-> 1]
PrevDay(dt) ==
    IF dt.d > 1 THEN [dt EXCEPT !.d = dt.d - 1]
    ELSE IF dt.m > 1 THEN [y |-> dt.y, m |-> dt.m - 1, d |-> DaysInMonth(dt.y, dt.m - 1)]
    ELSE [y |-> dt.y - 1, m |-> 12, d |-> 31]
\* dt + timedelta(days=n)
RECURSIVE AddDays(_, _)
AddDays(dt, n) ==
    IF n = 0 THEN dt
    ELSE IF n > 0 THEN AddDays(NextDay(dt), n - 1)
    ELSE AddDays(PrevDay(dt), n + 1)

Pad2(n) == <<Digits[(n \div 10) + 1], Digits[(n % 10) + 1]>>
Year4(y) ==
    <<Digits[(y \div 1000) + 1], Digits[((y \div 100) % 10) + 1],
      Digits[((y \div 10) % 10) + 1], Digits[(y % 10) + 1]>>
MonthAbbr ==
    << <<"J","a","n">>, <<"F","e","b">>, <<"M","a","r">>, <<"A","p","r">>,
       <<"M","a","y">>, <<"J","u","n">>, <<"J","u","l">>, <<"A","u","g">>,
       <<"S","e","p">>, <<"O","c","t">>, <<"N","o","v">>, <<"D","e","c">> >>

format_formats == << "%m/%d/%Y", "%d/%m/%Y", "%Y-%m-%d", "%m-%d-%Y", "%d %b %Y" >>

\* dt.strftime(fmt) for the five formats format_birthday renders
Strftime(dt, fmt) ==
    IF fmt = "%m/%d/%Y" THEN Pad2(dt.m) \o <<"/">> \o Pad2(dt.d) \o <<"/">> \o Year4(dt.y)
    ELSE IF fmt = "%d/%m/%Y" THEN Pad2(dt.d) \o <<"/">> \o Pad2(dt.m) \o <<"/">> \o Year4(dt.y)
    ELSE IF fmt = "%Y-%m-%d" THEN Year4(dt.y) \o <<"-">> \o Pad2(dt.m) \o <<"-">> \o Pad2(dt.d)
    ELSE IF fmt = "%m-%d-%Y" THEN Pad2(dt.m) \o <<"-">> \o Pad2(dt.d) \o <<"-">> \o Year4(dt.y)
    ELSE Pad2(dt.d) \o <<" ">> \o MonthAbbr[dt.m] \o <<" ">> \o Year4(dt.y)

\* re.sub(r"\b0(\d)", r"\1", s): drop a "0" that starts a word and has a digit after it
RECURSIVE ZeroStripFrom(_, _)
ZeroStripFrom(s, i) ==
    IF i > Len(s) THEN <<>>
    ELSE IF /\ s[i] = "0"
            /\ (i = 1 \/ ~IsWord(s[i - 1]))
            /\ i < Len(s) /\ IsDigit(s[i + 1])
        THEN ZeroStripFrom(s, i + 1)
    ELSE <<s[i]>> \o ZeroStripFrom(s, i + 1)
ZeroStrip(s) == ZeroStripFrom(s, 1)

\* s.replace("/", "-")
ReplaceSlash(s) == [i \in 1..Len(s) |-> IF s[i] = "/" THEN "-" ELSE s[i]]

text_tokens ==
    << <<"u","n","k","n","o","w","n">>, <<"n","/","a">>,
       <<"s","e","e"," ","n","o","t","e","s">>, <<"?","?">> >>

\* format_birthday from "formatted = dt.strftime(rng.choice(formats))" on: the
\* outcomes [out, n, g] (the string, the draws consumed, the gates drawn)
RenderOutcomes(dt, off) ==
    UNION { UNION {
        IF u3 < config.date_format_prob
        THEN { [ out |-> IF u4 < 30 THEN ReplaceSlash(ZeroStrip(Strftime(dt, f)))
                                    ELSE ZeroStrip(Strftime(dt, f)),
                 n   |-> 3,
                 g   |-> << <<"date_format", TRUE>>, <<"separator", u4 < 30>> >> ]
               : u4 \in Random(off + 2) }
        ELSE { [ out |-> Strftime(dt, f), n |-> 2, g |-> << <<"date_format", FALSE>> >> ] }
        : u3 \in Random(off + 1) } : f \in Choice(off, format_formats) }

\* format_birthday(dt, rng, config): its outcomes [out, n, g]
format_birthday(dt, off) ==
    UNION {
        IF u1 < config.date_text_token_prob
        THEN { [ out |-> t, n |-> 2, g |-> << <<"date_text_token", TRUE>> >> ]
               : t \in Choice(off + 1, text_tokens) }
        ELSE UNION {
            IF u2 < config.date_shift_prob
            THEN UNION {
                { [ out |-> r.out, n |-> 3 + r.n,
                    g |-> << <<"date_text_token", FALSE>>, <<"date_shift", TRUE>> >> \o r.g ]
                  : r \in RenderOutcomes(AddDays(dt, delta), off + 3) }
                : delta \in Randint(off + 2, 0 - config.max_date_shift_days,
                                    config.max_date_shift_days) }
            ELSE { [ out |-> r.out, n |-> 2 + r.n,
                     g |-> << <<"date_text_token", FALSE>>, <<"date_shift", FALSE>> >> \o r.g ]
                   : r \in RenderOutcomes(dt, off + 2) }
            : u2 \in Random(off + 1) }
        : u1 \in Random(off) }

-----------------------------------------------------------------------------
(* mutate_name and mutate_generic, one step per gate *)

\* the outcomes <<value, draws consumed>> of each stage once its gate has fired,
\* its draws starting at offset off
CharSwapOutcomes(v, off) ==
    IF v = <<>> \/ Len(v) < 2 THEN {<<v, 0>>}
    ELSE {<<SwapTwoCharacters(v, p[1], p[2]), 1>> : p \in Sample2(off, Len(v))}
TypoOutcomes(v, off) ==
    IF v = <<>> THEN {<<v, 0>>}
    ELSE {<<IntroduceTypo(v, idx, o, l), TypoDraws(v, o)>> :
            idx \in Randrange(off, Len(v)), o \in Choice(off + 1, operations),
            l \in Choice(off + 2, letters)}
CaseOutcomes(v, off) ==
    IF v = <<>> THEN {<<v, 0>>}
    ELSE {<<RandomCase(v, f), 1>> : f \in Choice(off, case_functions)}
WhitespaceOutcomes(v, off) ==
    IF v = <<>> THEN {<<v, 0>>}
    ELSE {<<AddWhitespace(v, a, b), 2>> : a \in Randint(off, 0, 2), b \in Randint(off + 1, 0, 2)}
SuffixOutcomes(v, off) ==
    IF v = <<>> THEN {<<v, 0>>}
    ELSE {<<AddSuffix(v, x), 1>> : x \in Choice(off, suffixes)}

\* "if rng.random() < config[...]: value = stage(value, rng)", then on to next
Stage(gate, prob, outcomes, next) ==
    /\ pc = gate
    /\ \E u \in Random(0) :
        IF u < prob
        THEN \E o \in outcomes :
                /\ value' = o[1]
                /\ pos' = pos + 1 + o[2]
                /\ gates' = Append(gates, <<gate, TRUE>>)
        ELSE /\ value' = value
             /\ pos' = pos + 1
             /\ gates' = Append(gates, <<gate, FALSE>>)
    /\ pc' = next
    /\ UNCHANGED <<seed, cfgVars, dirVars, fileVars, rowVars, fn, swapVars,
                   runVars, strVars>>

\* the missing gate blanking the value and going on to the later gates
MissingGate_NoReturn ==
    /\ pc = "missing"
    /\ \E u \in Random(0) :
        /\ value' = IF u < config.missing_prob THEN <<>> ELSE value
        /\ gates' = Append(gates, <<"missing", u < config.missing_prob>>)
    /\ pc' = "char_swap"
    /\ pos' = pos + 1
    /\ UNCHANGED <<seed, cfgVars, dirVars, fileVars, rowVars, fn, swapVars,
                   runVars, strVars>>

\* "if rng.random() < config["missing_prob"]: return """
MissingGate ==
    /\ pc = "missing"
    /\ \E u \in Random(0) :
        IF u < config.missing_prob
        THEN /\ value' = <<>>
             /\ gates' = Append(gates, <<"missing", TRUE>>)
             /\ pc' = "mut_ret"
        ELSE /\ value' = value
             /\ gates' = Append(gates, <<"missing", FALSE>>)
             /\ pc' = "char_swap"
    /\ pos' = pos + 1
    /\ UNCHANGED <<seed, cfgVars, dirVars, fileVars, rowVars, fn, swapVars,
                   runVars, strVars>>

CharSwapGate ==
    Stage("char_swap", config.char_swap_prob, CharSwapOutcomes(value, 1), "typo")
TypoGate ==
    Stage("typo", config.typo_prob, TypoOutcomes(value, 1), "case")
CaseGate ==
    Stage("case", config.case_prob, CaseOutcomes(value, 1), "whitespace")
WhitespaceGate ==
    Stage("whitespace", config.whitespace_prob, WhitespaceOutcomes(value, 1),
          IF fn = "mutate_name" THEN "suffix" ELSE "mut_ret")
SuffixGate ==
    Stage("suffix", config.suffix_prob, SuffixOutcomes(value, 1), "mut_ret")

-----------------------------------------------------------------------------
(* mutate_encoded_row *)

GivenName == <<"G","i","v","e","n","N","a","m","e">>
Surname   == <<"S","u","r","n","a","m","e">>

\* fieldnames[:-2] if len(fieldnames) >= 2 else []
MutateFields(names) == IF Len(names) >= 2 THEN SubSeq(names, 1, Len(names) - 2) ELSE <<>>

\* row.get(col, "")
RowGet(r, col) == IF col \in DOMAIN r THEN r[col] ELSE <<>>
\* d[key] = v
DictSet(d, key, v) == [x \in DOMAIN d \cup {key} |-> IF x = key THEN v ELSE d[x]]

IsNameColumn(col) == col \in {GivenName, Surname}
IsDateColumn(col) ==
    /\ ~IsNameColumn(col)
    /\ \/ Contains(StrLower(col), <<"b","i","r","t","h">>)
       \/ Contains(StrLower(col), <<"d","a","t","e">>)

CurrentColumn == MutateFields(fieldnames)[ci]
InColumnLoop == pc = "col" /\ ci <= Len(MutateFields(fieldnames))

\* "if col in ("GivenName", "Surname"): mutated[col] = mutate_name(val, rng, config)":
\* the call
NameColumn ==
    /\ InColumnLoop
    /\ IsNameColumn(CurrentColumn)
    /\ fn' = "mutate_name"
    /\ value' = RowGet(row, CurrentColumn)
    /\ gates' = <<>>
    /\ pc' = "missing"
    /\ UNCHANGED <<rngVars, cfgVars, dirVars, fileVars, rowVars, swapVars,
                   runVars, strVars>>

\* "else: mutated[col] = mutate_generic(val, rng, config)": the call
GenericColumn ==
    /\ InColumnLoop
    /\ ~IsNameColumn(CurrentColumn) /\ ~IsDateColumn(CurrentColumn)
    /\ fn' = "mutate_generic"
    /\ value' = RowGet(row, CurrentColumn)
    /\ gates' = <<>>
    /\ pc' = "missing"
    /\ UNCHANGED <<rngVars, cfgVars, dirVars, fileVars, rowVars, swapVars,
                   runVars, strVars>>

\* the return of mutate_name / mutate_generic and the assignment to mutated[col]
MutateReturn ==
    /\ pc = "mut_ret"
    /\ mutated' = DictSet(mutated, CurrentColumn, value)
    /\ ci' = ci + 1
    /\ gates' = <<>>
    /\ pc' = "col"
    /\ UNCHANGED <<rngVars, cfgVars, dirVars, fileVars, row, fn, value, swapVars,
                   runVars, strVars>>

\* the date branch with a value parse_birthday parses
DateColumnParsed ==
    /\ InColumnLoop
    /\ IsDateColumn(CurrentColumn)
    /\ parse_birthday(RowGet(row, CurrentColumn)) # None
    /\ \E r \in format_birthday(parse_birthday(RowGet(row, CurrentColumn)), 0) :
        /\ mutated' = DictSet(mutated, CurrentColumn, r.out)
        /\ pos' = pos + r.n
        /\ gates' = r.g
    /\ ci' = ci + 1
    /\ UNCHANGED <<pc, seed, cfgVars, dirVars, fileVars, row, fn, value, swapVars,
                   runVars, strVars>>

\* the date branch handing a value parse_birthday does not parse to mutate_generic
DateColumnUnparsed_AsGeneric ==
    /\ InColumnLoop
    /\ IsDateColumn(CurrentColumn)
    /\ parse_birthday(RowGet(row, CurrentColumn)) = None
    /\ fn' = "mutate_generic"
    /\ value' = RowGet(row, CurrentColumn)
    /\ gates' = <<>>
    /\ pc' = "missing"
    /\ UNCHANGED <<rngVars, cfgVars, dirVars, fileVars, rowVars, swapVars,
                   runVars, strVars>>

\* the date branch with a value parse_birthday does not parse:
\* "elif rng.random() < config["missing_prob"]: mutated[col] = """
DateColumnUnparsed ==
    /\ InColumnLoop
    /\ IsDateColumn(CurrentColumn)
    /\ parse_birthday(RowGet(row, CurrentColumn)) = None
    /\ \E u \in Random(0) :
        /\ mutated' = IF u < config.missing_prob
                        THEN DictSet(mutated, CurrentColumn, <<>>) ELSE mutated
        /\ gates' = << <<"missing", u < config.missing_prob>> >>
    /\ pos' = pos + 1
    /\ ci' = ci + 1
    /\ UNCHANGED <<pc, seed, cfgVars, dirVars, fileVars, row, fn, value, swapVars,
                   runVars, strVars>>

\* the end of the column loop
ColumnsDone ==
    /\ pc = "col"
    /\ ci > Len(MutateFields(fieldnames))
    /\ pc' = "swap_name"
    /\ UNCHANGED <<rngVars, cfgVars, dirVars, fileVars, rowVars, mutVars, swapVars,
                   runVars, strVars>>

\* "if rng.random() < config["swap_name_prob"] and "GivenName" in mutated and
\* "Surname" in mutated: swap them", and "return mutated" into noisy_rows
SwappedNames(m) ==
    [c \in DOMAIN m |->
        IF c = GivenName THEN m[Surname] ELSE IF c = Surname THEN m[GivenName] ELSE m[c]]

SwapNames ==
    /\ pc = "swap_name"
    /\ \E u \in Random(0) :
        /\ mutated' = IF /\ u < config.swap_name_prob
                         /\ GivenName \in DOMAIN mutated
                         /\ Surname \in DOMAIN mutated
                        THEN SwappedNames(mutated) ELSE mutated
        /\ gates' = << <<"swap_name", u < config.swap_name_prob>> >>
    /\ pos' = pos + 1
    /\ noisy_rows' = Append(noisy_rows, mutated')
    /\ ri' = ri + 1
    /\ pc' = "rows"
    /\ UNCHANGED <<seed, cfgVars, dirVars, fieldnames, rows, row, ci, fn, value,
                   swapVars, runVars, strVars>>

\* "[mutate_encoded_row(row, fieldnames, rng, config) for row in rows]": the call
\* for the next row ("mutated = dict(row)"), or the end of the list
NextRow ==
    /\ pc = "rows"
    /\ ri <= Len(rows)
    /\ row' = rows[ri]
    /\ mutated' = rows[ri]
    /\ ci' = 1
    /\ pc' = "col"
    /\ UNCHANGED <<rngVars, cfgVars, dirVars, fileVars, mutVars, swapVars,
                   runVars, strVars>>

MutateSteps ==
    \/ MissingGate \/ CharSwapGate \/ TypoGate \/ CaseGate \/ WhitespaceGate
    \/ SuffixGate \/ MutateReturn

RowSteps ==
    \/ NextRow \/ NameColumn \/ GenericColumn \/ DateColumnParsed
    \/ DateColumnUnparsed \/ ColumnsDone \/ SwapNames

-----------------------------------------------------------------------------
(* SpecRow: mutate_encoded_row on one record, with an arbitrary generator *)

Birthday == <<"B","i","r","t","h","d","a","y">>
DATE     == <<"D","A","T","E">>
City     == <<"C","i","t","y">>
Enc      == <<"e","n","c">>
Uid      == <<"u","i","d">>

E1 == <<"E","1">>
E2 == <<"E","2">>
U1 == <<"U","1">>
U2 == <<"U","2">>

Date_01_02_1990 == <<"0","1","/","0","2","/","1","9","9","0">>
Date_1991_03_04 == <<"1","9","9","1","-","0","3","-","0","4">>
Date_13_01_1990 == <<"1","3","/","0","1","/","1","9","9","0">>
Date_02_30_1990 == <<"0","2","/","3","0","/","1","9","9","0">>

NoiseLevels == {0, 1, 2}

\* the schemas, each with the values its columns take
RowSchemas ==
    { [names |-> <<GivenName, Enc, Uid>>,
       vals  |-> << {<<>>, <<"A","n">>}, {E1}, {U1} >>],
      [names |-> <<City, Enc, Uid>>,
       vals  |-> << {<<>>, <<"a","B">>}, {E1}, {U1} >>],
      [names |-> <<Birthday, Enc, Uid>>,
       vals  |-> << {Date_01_02_1990, Date_1991_03_04, Date_13_01_1990,
                     Date_02_30_1990, <<"n","/","a">>, <<>>}, {E1}, {U1} >>],
      [names |-> <<DATE, Enc, Uid>>,
       vals  |-> << {Date_01_02_1990, <<"x">>}, {E1}, {U1} >>],
      [names |-> <<GivenName, Surname, Enc, Uid>>,
       vals  |-> << {<<"A">>}, {<<>>}, {E1}, {U1} >>],
      [names |-> <<GivenName, Surname, Uid>>,
       vals  |-> << {<<"A">>}, {E1}, {U1} >>],
      [names |-> <<Surname, GivenName>>,
       vals  |-> << {E1}, {U1} >>],
      [names |-> <<Enc, Uid>>, vals |-> << {E1}, {U1} >>],
      [names |-> <<Uid>>, vals |-> << {U1} >>] }

\* the dict csv.DictReader makes of a line: a later column of the same name wins
MakeRow(names, v) ==
    [c \in {names[i] : i \in 1..Len(names)} |->
        v[CHOOSE i \in 1..Len(names) :
            names[i] = c /\ \A j \in (i + 1)..Len(names) : names[j] # c]]

RowsOf(schema) ==
    {MakeRow(schema.names, v) :
        v \in {w \in [1..Len(schema.names) -> UNION {schema.vals[i] : i \in 1..Len(schema.names)}] :
                \A i \in 1..Len(schema.names) : w[i] \in schema.vals[i]}}

InitRow ==
    /\ pc = "rows"
    /\ seed = <<>> /\ pos = 0
    /\ level \in NoiseLevels /\ swap_prob = 0
    /\ indir = NoDir /\ outdir = NoDir /\ files = <<>> /\ fi = 0
    /\ opened = <<>> /\ written = <<>> /\ started = <<>>
    /\ \E schema \in RowSchemas :
        /\ fieldnames = schema.names
        /\ \E r \in RowsOf(schema) : rows = <<r>>
    /\ ri = 1 /\ noisy_rows = <<>>
    /\ row = <<>> /\ mutated = <<>> /\ ci = 0
    /\ fn = "none" /\ value = <<>> /\ gates = <<>>
    /\ enc_col = <<>> /\ indices = <<>> /\ k = 0 /\ pre_rows = <<>> /\ attempts = <<>>
    /\ run = 1 /\ out1 = <<>>
    /\ op = "none" /\ arg = <<>> /\ ret = <<>>

NextRowSpec == MutateSteps \/ RowSteps

SpecRow == InitRow /\ [][NextRowSpec]_vars

-----------------------------------------------------------------------------
(* apply_encoding_swaps *)

\* the loop stopping one pair early: range(0, len(indices) - 2, 2)
MorePairs_SkipLast == k < Len(indices) - 2

\* "for k in range(0, len(indices) - 1, 2)": there is a pair at k
MorePairs == k < Len(indices) - 1

\* the early return, or "indices = list(range(len(rows))); rng.shuffle(indices)"
\* (the shuffle counts as one draw)
ApplyEncodingSwaps ==
    /\ pc = "apply_swaps"
    /\ pre_rows' = noisy_rows
    /\ attempts' = <<>>
    /\ k' = 0
    /\ IF \/ noisy_rows = <<>>
          \/ enc_col \notin DOMAIN noisy_rows[1]
          \/ swap_prob <= 0
       THEN /\ indices' = <<>>
            /\ pos' = pos
            /\ pc' = "write"
       ELSE /\ \E p \in Shuffle(0, Len(noisy_rows)) : indices' = p
            /\ pos' = pos + 1
            /\ pc' = "pair"
    /\ UNCHANGED <<seed, cfgVars, dirVars, fileVars, rowVars, mutVars, enc_col,
                   runVars, strVars>>

\* the exchange of the two rows themselves: rows[i], rows[j] = rows[j], rows[i]
ExchangeEncodings_WholeRows(rs, i, j) ==
    [n \in 1..Len(rs) |->
        IF n = i + 1 THEN rs[j + 1] ELSE IF n = j + 1 THEN rs[i + 1] ELSE rs[n]]

\* rows[i][enc_col], rows[j][enc_col] = rows[j][enc_col], rows[i][enc_col]
\* (i and j index from 0)
ExchangeEncodings(rs, i, j) ==
    [n \in 1..Len(rs) |->
        IF n = i + 1 THEN [rs[n] EXCEPT ![enc_col] = rs[j + 1][enc_col]]
        ELSE IF n = j + 1 THEN [rs[n] EXCEPT ![enc_col] = rs[i + 1][enc_col]]
        ELSE rs[n]]

\* the loop stepping by one, range(0, len(indices) - 1): overlapping pairs
SwapPair_Overlapping ==
    /\ pc = "pair"
    /\ MorePairs
    /\ \E u \in Random(0) :
        noisy_rows' = IF u >= swap_prob THEN noisy_rows
                      ELSE ExchangeEncodings(noisy_rows, indices[k + 1], indices[k + 2])
    /\ attempts' = Append(attempts, <<indices[k + 1], indices[k + 2]>>)
    /\ pos' = pos + 1
    /\ k' = k + 1
    /\ UNCHANGED <<pc, seed, cfgVars, dirVars, fieldnames, rows, ri, rowVars,
                   mutVars, enc_col, indices, pre_rows, runVars, strVars>>

\* one turn of the loop: "if rng.random() >= swap_prob: continue", else the exchange
SwapPair ==
    /\ pc = "pair"
    /\ MorePairs
    /\ \E u \in Random(0) :
        noisy_rows' = IF u >= swap_prob THEN noisy_rows
                      ELSE ExchangeEncodings(noisy_rows, indices[k + 1], indices[k + 2])
    /\ attempts' = Append(attempts, <<indices[k + 1], indices[k + 2]>>)
    /\ pos' = pos + 1
    /\ k' = k + 2
    /\ UNCHANGED <<pc, seed, cfgVars, dirVars, fieldnames, rows, ri, rowVars,
                   mutVars, enc_col, indices, pre_rows, runVars, strVars>>

\* the end of the loop
SwapsDone ==
    /\ pc = "pair"
    /\ ~MorePairs
    /\ pc' = "write"
    /\ UNCHANGED <<rngVars, cfgVars, dirVars, fileVars, rowVars, mutVars, swapVars,
                   runVars, strVars>>

SwapSteps == ApplyEncodingSwaps \/ SwapPair \/ SwapsDone

-----------------------------------------------------------------------------
(* SpecSwap: apply_encoding_swaps on a dataset, with an arbitrary generator *)

UidOf(i) == <<"U", Digits[i + 1]>>

\* the datasets of n rows: column City, an encoding E1 or E2, the row's own uid
Datasets(n) ==
    {[i \in 1..n |-> [c \in {City, Enc, Uid} |->
                        IF c = City THEN <<"x">> ELSE IF c = Enc THEN e[i] ELSE UidOf(i)]] :
        e \in [1..n -> {E1, E2}]}

SwapProbs == {0 - 10, 0, 50, 100}

InitSwap ==
    /\ pc = "apply_swaps"
    /\ seed = <<>> /\ pos = 0
    /\ level = 0 /\ swap_prob \in SwapProbs
    /\ indir = NoDir /\ outdir = NoDir /\ files = <<>> /\ fi = 0
    /\ opened = <<>> /\ written = <<>> /\ started = <<>>
    /\ fieldnames = <<City, Enc, Uid>> /\ rows = <<>> /\ ri = 0
    /\ \E n \in 0..MaxRows : noisy_rows \in Datasets(n)
    /\ row = <<>> /\ mutated = <<>> /\ ci = 0
    /\ fn = "none" /\ value = <<>> /\ gates = <<>>
    /\ enc_col \in {Enc, <<"t","o","k","e","n">>}
    /\ indices = <<>> /\ k = 0 /\ pre_rows = <<>> /\ attempts = <<>>
    /\ run = 1 /\ out1 = <<>>
    /\ op = "none" /\ arg = <<>> /\ ret = <<>>

SpecSwap == InitSwap /\ [][SwapSteps]_vars

-----------------------------------------------------------------------------
(* iter_encoded_files *)

patterns ==
    << <<"*","_","b","f","_","e","n","c","o","d","e","d",".","t","s","v">>,
       <<"*","_","b","f","d","_","e","n","c","o","d","e","d",".","t","s","v">>,
       <<"*","_","t","m","h","_","e","n","c","o","d","e","d",".","t","s","v">>,
       <<"*","_","t","s","h","_","e","n","c","o","d","e","d",".","t","s","v">> >>

\* fnmatch of a pattern "*" + suffix
Match(name, pattern) ==
    LET suffix == Tail(pattern)
    IN  /\ Len(name) >= Len(suffix)
        /\ SubSeq(name, Len(name) - Len(suffix) + 1, Len(name)) = suffix

\* the characters of file names in code point order
CodeOrder == <<".">> \o Digits \o UpperAlphabet \o <<"_">> \o LowerAlphabet

RECURSIVE StrLess(_, _)
\* a < b of Python strings
StrLess(a, b) ==
    IF b = <<>> THEN FALSE
    ELSE IF a = <<>> THEN TRUE
    ELSE IF Head(a) = Head(b) THEN StrLess(Tail(a), Tail(b))
    ELSE IndexOf(Head(a), CodeOrder) < IndexOf(Head(b), CodeOrder)

RECURSIVE Insert(_, _)
Insert(x, sorted) ==
    IF sorted = <<>> THEN <<x>>
    ELSE IF StrLess(x, Head(sorted)) THEN <<x>> \o sorted
    ELSE <<Head(sorted)>> \o Insert(x, Tail(sorted))
RECURSIVE Sorted(_)
\* sorted(seq)
Sorted(seq) == IF seq = <<>> THEN <<>> ELSE Insert(Head(seq), Sorted(Tail(seq)))

\* input_dir.glob(pattern), the directory being listed in the order `listing`
Glob(listing, pattern) == SelectSeq(listing, LAMBDA n : Match(n, pattern))

RECURSIVE UnsortedFrom(_, _)
UnsortedFrom(listing, i) ==
    IF i > Len(patterns) THEN <<>>
    ELSE Glob(listing, patterns[i]) \o UnsortedFrom(listing, i + 1)
\* iter_encoded_files yielding input_dir.glob(pattern) as listed, without sorted()
IterEncodedFiles_Unsorted(listing) == UnsortedFrom(listing, 1)

RECURSIVE IterFrom(_, _)
IterFrom(listing, i) ==
    IF i > Len(patterns) THEN <<>>
    ELSE Sorted(Glob(listing, patterns[i])) \o IterFrom(listing, i + 1)
\* list(iter_encoded_files(input_dir))
IterEncodedFiles(listing) == IterFrom(listing, 1)

\* the orders in which the system may list the names of a directory
Listings(names) ==
    {l \in [1..Cardinality(names) -> names] :
        \A i, j \in 1..Cardinality(names) : i # j => l[i] # l[j]}

RECURSIVE LastDot(_, _)
LastDot(name, i) ==
    IF i <= 1 THEN 0 ELSE IF name[i] = "." THEN i ELSE LastDot(name, i - 1)
\* path.stem
PathStem(name) ==
    IF LastDot(name, Len(name)) = 0 THEN name
    ELSE SubSeq(name, 1, LastDot(name, Len(name)) - 1)
\* f"{path.stem}.tsv"
OutputName(name) == PathStem(name) \o <<".","t","s","v">>

-----------------------------------------------------------------------------
(* main and process_encoded_file *)

\* "rng = random.Random(args.seed)", then "Input directory not found"
MainNoDirectory ==
    /\ pc = "main"
    /\ ~indir.exists
    /\ pos' = 0
    /\ pc' = "fatal"
    /\ UNCHANGED <<seed, cfgVars, dirVars, fileVars, rowVars, mutVars, swapVars,
                   runVars, strVars>>

\* main without the "if not files" check: the loop runs over no file
MainNoFiles_Unchecked ==
    /\ pc = "main"
    /\ indir.exists
    /\ \E listing \in Listings(DOMAIN indir.files) :
        /\ IterEncodedFiles(listing) = <<>>
        /\ files' = IterEncodedFiles(listing)
    /\ pos' = 0
    /\ fi' = 1
    /\ pc' = "file"
    /\ UNCHANGED <<seed, cfgVars, indir, outdir, opened, written, started,
                   fileVars, rowVars, mutVars, swapVars, runVars, strVars>>

\* "if not files: raise SystemExit("No encoded TSV files found ...")"
MainNoFiles ==
    /\ pc = "main"
    /\ indir.exists
    /\ \E listing \in Listings(DOMAIN indir.files) :
        /\ IterEncodedFiles(listing) = <<>>
        /\ files' = IterEncodedFiles(listing)
    /\ pos' = 0
    /\ pc' = "fatal"
    /\ UNCHANGED <<seed, cfgVars, indir, outdir, fi, opened, written, started,
                   fileVars, rowVars, mutVars, swapVars, runVars, strVars>>

\* "files = list(iter_encoded_files(args.input_dir))" and the start of the loop
MainStart ==
    /\ pc = "main"
    /\ indir.exists
    /\ \E listing \in Listings(DOMAIN indir.files) :
        /\ IterEncodedFiles(listing) # <<>>
        /\ files' = IterEncodedFiles(listing)
    /\ pos' = 0
    /\ fi' = 1
    /\ pc' = "file"
    /\ UNCHANGED <<seed, cfgVars, indir, outdir, opened, written, started,
                   fileVars, rowVars, mutVars, swapVars, runVars, strVars>>

GeneratorState == IF Free THEN pos ELSE pos % Len(seed)

\* process_encoded_file up to "if not fieldnames": the directory is made, the
\* file is read
OpenFile ==
    /\ pc = "file"
    /\ fi <= Len(files)
    /\ indir.files[files[fi]].header # <<>>
    /\ outdir' = [outdir EXCEPT !.exists = TRUE]
    /\ opened' = Append(opened, files[fi])
    /\ started' = Append(started, [at |-> GeneratorState, content |-> indir.files[files[fi]],
                                   done |-> FALSE, wrote |-> FALSE, out |-> NoOutput])
    /\ fieldnames' = indir.files[files[fi]].header
    /\ rows' = indir.files[files[fi]].rows
    /\ ri' = 1
    /\ noisy_rows' = <<>>
    /\ pc' = "rows"
    /\ UNCHANGED <<rngVars, cfgVars, indir, files, fi, written, rowVars, mutVars,
                   swapVars, runVars, strVars>>

\* "if not fieldnames: return path": the directory is made, nothing is written
SkipFileWithoutHeader ==
    /\ pc = "file"
    /\ fi <= Len(files)
    /\ indir.files[files[fi]].header = <<>>
    /\ outdir' = [outdir EXCEPT !.exists = TRUE]
    /\ opened' = Append(opened, files[fi])
    /\ started' = Append(started, [at |-> GeneratorState, content |-> indir.files[files[fi]],
                                   done |-> TRUE, wrote |-> FALSE, out |-> NoOutput])
    /\ fieldnames' = <<>>
    /\ rows' = indir.files[files[fi]].rows
    /\ fi' = fi + 1
    /\ UNCHANGED <<pc, rngVars, cfgVars, indir, files, written, ri, noisy_rows,
                   rowVars, mutVars, swapVars, runVars, strVars>>

\* the end of the list of rows: "enc_col = fieldnames[-2] if len(fieldnames) >= 2
\* else None" and "if enc_col: apply_encoding_swaps(...)"
RowsDone ==
    /\ pc = "rows"
    /\ ri > Len(rows)
    /\ enc_col' = IF Len(fieldnames) >= 2 THEN fieldnames[Len(fieldnames) - 1] ELSE <<>>
    /\ pc' = IF enc_col' # <<>> THEN "apply_swaps" ELSE "write"
    /\ UNCHANGED <<rngVars, cfgVars, dirVars, fileVars, rowVars, mutVars, indices, k,
                   pre_rows, attempts, runVars, strVars>>

\* the output file is written and main goes on to the next file
WriteFile ==
    /\ pc = "write"
    /\ LET name == OutputName(files[fi])
           content == [header |-> fieldnames, rows |-> noisy_rows]
       IN  /\ outdir' = [outdir EXCEPT !.files = DictSet(outdir.files, name, content)]
           /\ written' = DictSet(written, name, content)
           /\ started' = [started EXCEPT ![Len(started)] =
                            [@ EXCEPT !.done = TRUE, !.wrote = TRUE, !.out = content]]
    /\ fi' = fi + 1
    /\ pc' = "file"
    /\ UNCHANGED <<rngVars, cfgVars, indir, files, opened, fileVars, rowVars,
                   mutVars, swapVars, runVars, strVars>>

\* the end of main
MainDone ==
    /\ pc = "file"
    /\ fi > Len(files)
    /\ pc' = "exit"
    /\ UNCHANGED <<rngVars, cfgVars, dirVars, fileVars, rowVars, mutVars, swapVars,
                   runVars, strVars>>

\* the program is run again with the same seed, input files and flags
RunAgain ==
    /\ pc = "exit"
    /\ run = 1
    /\ run' = 2
    /\ out1' = written
    /\ written' = <<>>
    /\ opened' = <<>>
    /\ files' = <<>> /\ fi' = 0
    /\ fieldnames' = <<>> /\ rows' = <<>> /\ ri' = 0 /\ noisy_rows' = <<>>
    /\ row' = <<>> /\ mutated' = <<>> /\ ci' = 0
    /\ fn' = "none" /\ value' = <<>> /\ gates' = <<>>
    /\ enc_col' = <<>> /\ indices' = <<>> /\ k' = 0 /\ pre_rows' = <<>> /\ attempts' = <<>>
    /\ pc' = "main"
    /\ UNCHANGED <<rngVars, cfgVars, indir, outdir, started, strVars>>

PipelineSteps ==
    \/ MainNoDirectory \/ MainNoFiles \/ MainStart \/ OpenFile
    \/ SkipFileWithoutHeader \/ RowsDone \/ WriteFile \/ MainDone \/ RunAgain

-----------------------------------------------------------------------------
(* Spec: the whole program, run twice with one seeded generator *)

FileName(prefix, tag) ==
    prefix \o <<"_">> \o tag \o <<"_","e","n","c","o","d","e","d",".","t","s","v">>
Notes_txt == <<"n","o","t","e","s",".","t","x","t">>

People ==
    [header |-> <<GivenName, Enc, Uid>>,
     rows   |-> << MakeRow(<<GivenName, Enc, Uid>>, << <<"A","n">>, E1, U1 >>),
                   MakeRow(<<GivenName, Enc, Uid>>, << <<"B">>, E2, U2 >>) >>]
Births ==
    [header |-> <<Birthday, City, Enc, Uid>>,
     rows   |-> << MakeRow(<<Birthday, City, Enc, Uid>>,
                           << Date_01_02_1990, <<"a">>, E1, U1 >>),
                   MakeRow(<<Birthday, City, Enc, Uid>>,
                           << <<"n","/","a">>, <<>>, E2, U2 >>) >>]
Ids == [header |-> <<Uid>>, rows |-> << MakeRow(<<Uid>>, << U1 >>) >>]
NoHeader == [header |-> <<>>, rows |-> <<>>]

Dir(names, contents) ==
    [exists |-> TRUE,
     files  |-> [n \in {names[i] : i \in 1..Len(names)} |->
                    contents[CHOOSE i \in 1..Len(names) : names[i] = n]]]

InputDirs ==
    { NoDir,
      EmptyDir,
      Dir(<<Notes_txt>>, <<People>>),
      Dir(<<FileName(<<"b">>, <<"b","f">>), FileName(<<"a">>, <<"b","f">>),
            FileName(<<"a">>, <<"t","s","h">>), Notes_txt>>,
          <<People, People, Ids, People>>),
      Dir(<<FileName(<<"a">>, <<"t","m","h">>), FileName(<<"b">>, <<"b","f","d">>),
            FileName(<<"B">>, <<"b","f","d">>)>>,
          <<Births, NoHeader, Ids>>) }

PipelineLevels == {0, 1}
PipelineSwapProbs == {0, 50}

Init ==
    /\ pc = "main"
    /\ seed \in [1..SeedLen -> RawValues] /\ pos = 0
    /\ level \in PipelineLevels /\ swap_prob \in PipelineSwapProbs
    /\ indir \in InputDirs /\ outdir \in {NoDir, EmptyDir}
    /\ files = <<>> /\ fi = 0
    /\ opened = <<>> /\ written = <<>> /\ started = <<>>
    /\ fieldnames = <<>> /\ rows = <<>> /\ ri = 0 /\ noisy_rows = <<>>
    /\ row = <<>> /\ mutated = <<>> /\ ci = 0
    /\ fn = "none" /\ value = <<>> /\ gates = <<>>
    /\ enc_col = <<>> /\ indices = <<>> /\ k = 0 /\ pre_rows = <<>> /\ attempts = <<>>
    /\ run = 1 /\ out1 = <<>>
    /\ op = "none" /\ arg = <<>> /\ ret = <<>>

Next == PipelineSteps \/ RowSteps \/ MutateSteps \/ SwapSteps

Spec == Init /\ [][Next]_vars

-----------------------------------------------------------------------------
(* The string functions on their own: SpecStr applies each to every string  *)
(* of at most MaxLen characters with every draw.                            *)

StrChars == {"a", "B", " "}

RECURSIVE StringsUpTo(_)
StringsUpTo(n) ==
    IF n = 0 THEN {<<>>}
    ELSE StringsUpTo(n - 1)
            \cup {Append(s, c) : s \in {t \in StringsUpTo(n - 1) : Len(t) = n - 1},
                                 c \in StrChars}

Idle ==
    /\ pc = "idle" /\ seed = <<>> /\ pos = 0 /\ level = 0 /\ swap_prob = 0
    /\ indir = NoDir /\ outdir = NoDir /\ files = <<>> /\ fi = 0
    /\ opened = <<>> /\ written = <<>> /\ started = <<>>
    /\ fieldnames = <<>> /\ rows = <<>> /\ ri = 0 /\ noisy_rows = <<>>
    /\ row = <<>> /\ mutated = <<>> /\ ci = 0
    /\ fn = "none" /\ value = <<>> /\ gates = <<>>
    /\ enc_col = <<>> /\ indices = <<>> /\ k = 0 /\ pre_rows = <<>> /\ attempts = <<>>
    /\ run = 1 /\ out1 = <<>>

InitStr ==
    /\ Idle
    /\ op = "none"
    /\ arg \in StringsUpTo(MaxLen)
    /\ ret = <<>>

CallIntroduceTypo ==
    /\ op = "none"
    /\ \E idx \in 0..Max(Len(arg) - 1, 0), o \in 1..Len(operations),
          l \in 1..Len(letters) :
            ret' = IntroduceTypo(arg, idx, operations[o], letters[l])
    /\ op' = "introduce_typo"
    /\ UNCHANGED <<pc, rngVars, cfgVars, dirVars, fileVars, rowVars, mutVars,
                   swapVars, runVars, arg>>

CallSwapTwoCharacters ==
    /\ op = "none"
    /\ \E i \in 0..Max(Len(arg) - 1, 0), j \in 0..Max(Len(arg) - 1, 0) :
        /\ Len(arg) >= 2 => i # j
        /\ ret' = SwapTwoCharacters(arg, i, j)
    /\ op' = "swap_two_characters"
    /\ UNCHANGED <<pc, rngVars, cfgVars, dirVars, fileVars, rowVars, mutVars,
                   swapVars, runVars, arg>>

NextStr == CallIntroduceTypo \/ CallSwapTwoCharacters

SpecStr == InitStr /\ [][NextStr]_vars

-----------------------------------------------------------------------------
(* Claims about the string functions (SpecStr) *)

Abs(n) == IF n < 0 THEN 0 - n ELSE n

\* C10: introduce_typo returns a string whose length differs from its argument's
\* by at most 1 and returns the empty string unchanged; swap_two_characters
\* returns a string with the same bag of characters as its argument and returns
\* a string of length 0 or 1 unchanged.
C10_TypoLengthSwapBag ==
    /\ op = "introduce_typo" =>
        /\ Abs(Len(ret) - Len(arg)) <= 1
        /\ arg = <<>> => ret = <<>>
    /\ op = "swap_two_characters" =>
        /\ SameChars(arg, ret)
        /\ Len(arg) <= 1 => ret = arg

\* swap_two_characters has exchanged two different characters of a string
C10_Witness ==
    /\ op = "swap_two_characters"
    /\ Len(arg) = 3
    /\ ret # arg

-----------------------------------------------------------------------------
(* Claims about mutate_encoded_row and the field mutators (SpecRow) *)

LastTwo(names) == {i \in 1..Len(names) : i >= Len(names) - 1}

\* C1: the record mutate_encoded_row returns holds, in the second-to-last and in
\* the last column, exactly the values the input record held there.
C1_LastTwoColumnsKept ==
    \A i \in 1..Len(noisy_rows) : \A j \in LastTwo(fieldnames) :
        noisy_rows[i][fieldnames[j]] = rows[i][fieldnames[j]]

name_gates    == << "missing", "char_swap", "typo", "case", "whitespace", "suffix" >>
generic_gates == << "missing", "char_swap", "typo", "case", "whitespace" >>
GateOrder == IF fn = "mutate_name" THEN name_gates ELSE generic_gates
InMutator == pc \in {name_gates[i] : i \in 1..Len(name_gates)} \cup {"mut_ret"}

\* the gates drawn so far are the first gates of the fixed order, each once; a
\* fired missing gate ends the call with "" and one draw; otherwise the call
\* ends with every gate drawn
C8_GatesInOrder ==
    InMutator =>
        /\ Len(gates) <= Len(GateOrder)
        /\ \A i \in 1..Len(gates) : gates[i][1] = GateOrder[i]
        /\ pc # "mut_ret" =>
            /\ Len(gates) < Len(GateOrder)
            /\ pc = GateOrder[Len(gates) + 1]
            /\ \A i \in 1..Len(gates) : i = 1 => ~gates[i][2]
        /\ pc = "mut_ret" =>
            /\ Len(gates) >= 1
            /\ IF gates[1][2]
               THEN Len(gates) = 1 /\ value = <<>> /\ (ci = 1 => pos = 1)
               ELSE Len(gates) = Len(GateOrder) /\ pos >= Len(gates)

\* a stage that fires maps the value the previous stage left to one of the
\* stage's results, a stage that does not fire leaves it, and each stage draws
\* its gate once
C8_StageEffect ==
    (InMutator /\ pc # "mut_ret" /\ pc # "missing") =>
        /\ Len(gates') = Len(gates) + 1
        /\ pos' >= pos + 1
        /\ IF gates'[Len(gates')][2]
           THEN \/ pc = "char_swap" /\ \E o \in CharSwapOutcomes(value, 1) : value' = o[1]
                \/ pc = "typo" /\ \E o \in TypoOutcomes(value, 1) : value' = o[1]
                \/ pc = "case" /\ \E o \in CaseOutcomes(value, 1) : value' = o[1]
                \/ pc = "whitespace" /\ \E o \in WhitespaceOutcomes(value, 1) : value' = o[1]
                \/ pc = "suffix" /\ fn = "mutate_name"
                        /\ \E o \in SuffixOutcomes(value, 1) : value' = o[1]
           ELSE value' = value /\ pos' = pos + 1

\* C8: mutate_name draws its gates in the order missing, char_swap, typo, case,
\* whitespace, suffix; a fired missing gate returns "" with no later gate and no
\* further draw; otherwise each later gate is drawn once in that order, and a
\* stage that fires is applied to the previous stage's output.  mutate_generic
\* is the same without the suffix gate.
C8_GateSequence == []C8_GatesInOrder /\ [][C8_StageEffect]_vars

\* mutate_name has returned with the whitespace and the suffix stage both
\* applied to a value the earlier gates left alone
C8_Witness ==
    /\ pc = "mut_ret" /\ fn = "mutate_name"
    /\ Len(gates) = 6
    /\ ~gates[3][2] /\ ~gates[4][2] /\ gates[5][2] /\ gates[6][2]
    /\ value = <<" ","A","n"," "," ","J","r">>

-----------------------------------------------------------------------------
(* Claims about apply_encoding_swaps (SpecSwap) *)

InSwaps == pc \in {"pair", "write"}
EncPresent == noisy_rows # <<>> /\ enc_col \in DOMAIN noisy_rows[1]
\* the rows (indexed from 0) whose swap with row r was attempted
Partners(r) ==
    {q \in 0..(Len(pre_rows) - 1) :
        \E a \in 1..Len(attempts) : attempts[a] = <<r, q>> \/ attempts[a] = <<q, r>>}
AttemptsOf(r) ==
    {a \in 1..Len(attempts) : r \in {attempts[a][1], attempts[a][2]}}
EncCount(rs, e) == Cardinality({i \in 1..Len(rs) : rs[i][enc_col] = e})

\* C2: apply_encoding_swaps changes nothing but encoding-column values: every
\* row keeps its value in every other column (uid included), and the number and
\* order of the rows is unchanged.
C2_OnlyEncodingChanges ==
    InSwaps =>
        /\ Len(noisy_rows) = Len(pre_rows)
        /\ \A i \in 1..Len(pre_rows) :
            /\ DOMAIN noisy_rows[i] = DOMAIN pre_rows[i]
            /\ \A c \in DOMAIN pre_rows[i] \ {enc_col} :
                noisy_rows[i][c] = pre_rows[i][c]

\* the call has ended with the first of three rows holding another encoding
C2_Witness ==
    /\ pc = "write"
    /\ Len(noisy_rows) = 3
    /\ noisy_rows[1][Enc] # pre_rows[1][Enc]
    /\ noisy_rows[1][Uid] = UidOf(1)

\* C3: every row takes part in at most one swap attempt; with an odd row count
\* exactly one row is in no pair and keeps its encoding; each row holds its own
\* pre-swap encoding or that of its one partner, which then holds this row's;
\* the bag of encoding values is unchanged.
C3_DisjointPairs ==
    InSwaps =>
        /\ \A a \in 1..Len(attempts) : attempts[a][1] # attempts[a][2]
        /\ \A r \in 0..(Len(pre_rows) - 1) :
            /\ Cardinality(AttemptsOf(r)) <= 1
            /\ IF EncPresent
               THEN \/ noisy_rows[r + 1][enc_col] = pre_rows[r + 1][enc_col]
                    \/ \E q \in Partners(r) :
                        /\ noisy_rows[r + 1][enc_col] = pre_rows[q + 1][enc_col]
                        /\ noisy_rows[q + 1][enc_col] = pre_rows[r + 1][enc_col]
               ELSE noisy_rows[r + 1] = pre_rows[r + 1]
        /\ EncPresent => \A e \in {E1, E2} : EncCount(noisy_rows, e) = EncCount(pre_rows, e)
        /\ (pc = "write" /\ indices # <<>>) =>
            LET unpaired == {r \in 0..(Len(pre_rows) - 1) : AttemptsOf(r) = {}}
            IN  IF Len(pre_rows) % 2 = 1
                THEN /\ Cardinality(unpaired) = 1
                     /\ \A r \in unpaired :
                            noisy_rows[r + 1][enc_col] = pre_rows[r + 1][enc_col]
                ELSE unpaired = {}

\* the call has ended on three rows with one pair attempted and exchanged
C3_Witness ==
    /\ pc = "write"
    /\ Len(noisy_rows) = 3
    /\ Len(attempts) = 1
    /\ \E r \in 1..3 : noisy_rows[r][Enc] # pre_rows[r][Enc]

\* C4: with swap probability 1.0 and an even row count every row's encoding
\* differs from its pre-swap value, except a row paired with a row that held an
\* equal encoding; with a probability <= 0, an empty dataset or an absent
\* encoding column no row changes.
C4_SwapProbabilityExtremes ==
    pc = "write" =>
        /\ (swap_prob = 100 /\ Len(pre_rows) % 2 = 0 /\ EncPresent) =>
            \A r \in 0..(Len(pre_rows) - 1) :
                \/ noisy_rows[r + 1][enc_col] # pre_rows[r + 1][enc_col]
                \/ \E q \in Partners(r) :
                    pre_rows[q + 1][enc_col] = pre_rows[r + 1][enc_col]
        /\ (swap_prob <= 0 \/ pre_rows = <<>> \/ ~EncPresent) =>
            noisy_rows = pre_rows

\* with probability 1.0 each of four rows ends with another encoding
C4_Witness ==
    /\ pc = "write"
    /\ swap_prob = 100
    /\ Len(noisy_rows) = 4
    /\ \A r \in 1..4 : noisy_rows[r][Enc] # pre_rows[r][Enc]

-----------------------------------------------------------------------------
(* Claims about the whole program (Spec) *)

Matched == {n \in DOMAIN indir.files : \E i \in 1..Len(patterns) : Match(n, patterns[i])}
PatternIndex(n) == CHOOSE i \in 1..Len(patterns) : Match(n, patterns[i])

\* C5: two runs with the same seed, input files and flags write identical output
\* files, and what a file's processing writes depends only on the generator's
\* state when the file starts and on the file's content.
C5_Deterministic ==
    /\ (pc = "exit" /\ run = 2) => written = out1
    /\ \A i, j \in 1..Len(started) :
        (/\ started[i].done /\ started[j].done
         /\ started[i].at = started[j].at
         /\ started[i].content = started[j].content)
        => (started[i].wrote = started[j].wrote /\ started[i].out = started[j].out)

\* the second run has ended, having written a file whose rows the draws changed
C5_Witness ==
    /\ pc = "exit" /\ run = 2
    /\ \E n \in DOMAIN written :
        /\ written[n].rows # indir.files[n].rows
        /\ written[n] = out1[n]

\* C6: after a successful run the output directory holds, for every matched
\* input file (one without a header included), a file of the same name with the
\* input's header and the input's number of rows.
C6_OneOutputPerMatchedFile ==
    pc = "exit" =>
        \A n \in Matched :
            /\ n \in DOMAIN outdir.files
            /\ outdir.files[n].header = indir.files[n].header
            /\ Len(outdir.files[n].rows) = Len(indir.files[n].rows)

C7_FatalOrInOrder ==
    /\ pc = "fatal" =>
        /\ ~indir.exists \/ Matched = {}
        /\ pos = 0 /\ opened = <<>> /\ written = <<>> /\ started = <<>>
        /\ noisy_rows = <<>> /\ outdir.files = <<>>
    /\ (~indir.exists \/ Matched = {}) => pc \in {"main", "fatal"}
    /\ \A i \in 1..Len(opened) :
        /\ opened[i] \in Matched
        /\ \A j \in (i + 1)..Len(opened) :
            \/ PatternIndex(opened[i]) < PatternIndex(opened[j])
            \/ /\ PatternIndex(opened[i]) = PatternIndex(opened[j])
               /\ StrLess(opened[i], opened[j])
    /\ pc = "exit" => {opened[i] : i \in 1..Len(opened)} = Matched
    /\ pc \in {"rows", "col", "mut_ret", "swap_name", "apply_swaps", "pair", "write"}
        => (Len(opened) = fi /\ opened[fi] = files[fi])

\* C7: with no input directory or no matching file the run ends in the fatal
\* state with no file processed, no output written, the output directory not
\* created and no draw consumed; otherwise each matched file is processed once,
\* one at a time, in pattern order and in lexicographic order within a pattern.
C7_FatalBeforeAnyOutput ==
    []C7_FatalOrInOrder /\ [][pc' = "fatal" => outdir' = outdir]_vars

\* the run has ended in the fatal state on a directory whose only file matches
\* no pattern, the output directory still absent
C7_Witness ==
    /\ pc = "fatal"
    /\ indir.exists /\ DOMAIN indir.files = {Notes_txt}
    /\ ~outdir.exists

====
